---- MODULE Spec2Model ----
(***************************************************************************)
(* Label renderer of rust-ptouch: src/render/mod.rs.                       *)
(*                                                                         *)
(* Render owns a RenderConfig and a Display (a monochrome framebuffer kept *)
(* as a growing sequence of columns).  Render::render walks a slice of     *)
(* operations with a cursor x, dispatching Text to render_text_ttf and Pad *)
(* to pad; every other operation reaches unimplemented!().                 *)
(*                                                                         *)
(* Two specifications:                                                     *)
(*   Spec         one Render, one render call, one loop iteration a step;  *)
(*   SpecDisplay  a Display driven directly through set / image, as        *)
(*                test::test_display drives it.                            *)
(*                                                                         *)
(* The Display type (render/display.rs) and the font (rusttype with an     *)
(* embedded font file) are not part of mod.rs.  Display is modelled from   *)
(* its specification (section 4.1) and from the expectations of            *)
(* test::test_display; the font is an input: a small table of glyphs with  *)
(* fractional metrics, kept in half-pixel units.                           *)
(*                                                                         *)
(* usize arithmetic: a subtraction that underflows panics in a debug build *)
(* and wraps in a release build; `build` chooses.  A wrapped value v +     *)
(* 2^64 is kept as its signed representative v with a flag, which is also  *)
(* the value the later `as i32` cast produces.                             *)
(***************************************************************************)
EXTENDS Integers, Sequences, FiniteSets, TLC

VARIABLES
    cfg,        \* Render.cfg : [min_x, max_x, y]
    build,      \* "debug" | "release": decides what arithmetic overflow does
    display,    \* Render.display : [height, data], data a sequence of columns
    ops,        \* the slice passed to render
    i,          \* number of operations the loop of render has consumed
    x,          \* the cursor of render
    status,     \* "new" | "running" | "ok" | "err" | "panic"
    error,      \* what ended the call
    applied,    \* history: the operations dispatched successfully, in order
    last,       \* history: the last operation and what it saw
    sets,       \* SpecDisplay: number of set calls made
    img         \* SpecDisplay: the last export, [valid, bytes]

vars == <<cfg, build, display, ops, i, x, status, error, applied, last, sets, img>>

----------------------------------------------------------------------------
(* Bounds and inputs *)

MaxOps == 2         \* operations in one slice
MaxPad == 2         \* columns of a Pad
MaxSets == 2        \* SpecDisplay: set calls

Builds == {"debug", "release"}
CfgYs == {2, 4}
MinXs == {0, 2}
MaxXs == {3}

\* SpecDisplay: heights of one and of two storage units, initial widths, and
\* the coordinates passed to set: the first and last bit of a unit and of an
\* image byte, and the first bit of the next one.
Heights == {2, 9}
InitWs == {0, 1, 3}
SetXs == {0, 1, 7, 8}
SetYs == {0, 1, 7, 8}

NL == "\n"

\* Text values: strings over the glyphs "A", " ", "j" and the line break.
Values ==
    { <<>>, <<"A">>, <<" ">>, <<"j">>, <<"A", "j">>,
      <<NL, "A">>, <<NL, NL>> }

----------------------------------------------------------------------------
(* Bits *)

UnitBits == 8       \* a column is a Vec<u8>
ByteBits == 8       \* a row of the image is packed in u8

Bit(b, k) == (b \div (2 ^ k)) % 2

SetBitTo(b, k, v) ==
    IF v THEN (IF Bit(b, k) = 1 THEN b ELSE b + 2 ^ k)
    ELSE (IF Bit(b, k) = 1 THEN b - 2 ^ k ELSE b)

----------------------------------------------------------------------------
(* Display (render/display.rs), from its specification *)

ColumnUnits(h) == (h + UnitBits - 1) \div UnitBits

ZeroColumn(h) == [u \in 1..ColumnUnits(h) |-> 0]

DisplayNew(h, w) == [height |-> h, data |-> [c \in 1..w |-> ZeroColumn(h)]]

DisplaySetGrowsOneMore(d, px, py, v) ==
    IF py >= d.height THEN [ok |-> FALSE, display |-> d]
    ELSE LET w == Len(d.data)
             grown == [c \in 1..(IF px >= w THEN px + 2 ELSE w) |->
                          IF c <= w THEN d.data[c] ELSE ZeroColumn(d.height)]
             u == py \div UnitBits + 1
             col == [grown[px + 1] EXCEPT ![u] = SetBitTo(@, py % UnitBits, v)]
         IN [ok |-> TRUE,
             display |-> [d EXCEPT !.data = [grown EXCEPT ![px + 1] = col]]]

\* set(x, y, v): out of range when y >= height; grows to x + 1 columns.
DisplaySet(d, px, py, v) ==
    IF py >= d.height THEN [ok |-> FALSE, display |-> d]
    ELSE LET w == Len(d.data)
             grown == [c \in 1..(IF px >= w THEN px + 1 ELSE w) |->
                          IF c <= w THEN d.data[c] ELSE ZeroColumn(d.height)]
             u == py \div UnitBits + 1
             col == [grown[px + 1] EXCEPT ![u] = SetBitTo(@, py % UnitBits, v)]
         IN [ok |-> TRUE,
             display |-> [d EXCEPT !.data = [grown EXCEPT ![px + 1] = col]]]

\* get(x, y): out of range when x >= width or y >= height.
DisplayGet(d, px, py) ==
    IF px >= Len(d.data) \/ py >= d.height THEN [ok |-> FALSE, v |-> FALSE]
    ELSE [ok |-> TRUE,
          v |-> Bit(d.data[px + 1][py \div UnitBits + 1], py % UnitBits) = 1]

RowBytes(w) == (w + ByteBits - 1) \div ByteBits

RECURSIVE PackRowByte(_, _, _, _)
\* bits k..7 of byte xb of row py: bit k is column 8 * xb + k
PackRowByte(d, py, xb, k) ==
    IF k = ByteBits THEN 0
    ELSE (IF DisplayGet(d, ByteBits * xb + k, py).v THEN 2 ^ k ELSE 0)
         + PackRowByte(d, py, xb, k + 1)

RECURSIVE PackRowByteMsb(_, _, _, _)
PackRowByteMsb(d, py, xb, k) ==
    IF k = ByteBits THEN 0
    ELSE (IF DisplayGet(d, ByteBits * xb + k, py).v
          THEN 2 ^ (ByteBits - 1 - k) ELSE 0)
         + PackRowByteMsb(d, py, xb, k + 1)

DisplayImageMsbFirst(d) ==
    LET rb == RowBytes(Len(d.data))
    IN [n \in 1..(d.height * rb) |->
           PackRowByteMsb(d, (n - 1) \div rb, (n - 1) % rb, 0)]

\* image(): the rows, top to bottom, each packed into RowBytes(width) bytes.
DisplayImage(d) ==
    LET rb == RowBytes(Len(d.data))
    IN [n \in 1..(d.height * rb) |->
           PackRowByte(d, (n - 1) \div rb, (n - 1) % rb, 0)]

\* DrawTarget::draw_pixel(Pixel(Point(x, y), colour)): i32 coordinates; a
\* negative coordinate is no pixel of the canvas.
DrawPixel(d, px, py, on) ==
    IF px < 0 \/ py < 0 THEN [ok |-> FALSE, display |-> d]
    ELSE DisplaySet(d, px, py, on)

\* The three scenarios of test::test_display.
TestDisplay ==
    LET a == DisplaySet(DisplayNew(8, 0), 0, 0, TRUE).display
        b == DisplaySet(DisplayNew(8, 0), 1, 0, TRUE).display
        c == DisplaySet(DisplayNew(8, 0), 0, 1, TRUE).display
    IN /\ a.data = << <<1>> >>
       /\ DisplayImage(a) = <<1, 0, 0, 0, 0, 0, 0, 0>>
       /\ b.data = << <<0>>, <<1>> >>
       /\ DisplayImage(b) = <<2, 0, 0, 0, 0, 0, 0, 0>>
       /\ c.data = << <<2>> >>
       /\ DisplayImage(c) = <<0, 1, 0, 0, 0, 0, 0, 0>>

----------------------------------------------------------------------------
(* The font: rusttype over the embedded font file, at the fixed scale.     *)
(* Metrics are fractional; they are kept in half pixels (suffix 2).        *)

Ceil2(h) == -((-h) \div 2)          \* f32::ceil of h / 2
Floor2(h) == h \div 2               \* f32::floor of h / 2
AsUsize(v) == IF v < 0 THEN 0 ELSE v  \* `f32 as usize` saturates at 0

\* font.v_metrics(scale): ascent 1.5, descent -0.5, line gap 1.0
VMetrics == [ascent2 |-> 3, descent2 |-> -1, line_gap2 |-> 2]

\* One glyph: advance width, whether it has a bounding box, the box's left
\* edge relative to the caret, its top relative to the baseline (negative is
\* up), and the coverage g.draw reports, row by row, as <<x, y, tenths>>.
Glyph(c) ==
    CASE c = "A" -> [adv2 |-> 3, bb |-> TRUE, lsb2 |-> 0, top |-> -2,
                     mask |-> << <<0, 0, 9>>, <<1, 0, 3>>, <<2, 0, 9>>,
                                 <<0, 1, 7>> >>]
      [] c = "j" -> [adv2 |-> 2, bb |-> TRUE, lsb2 |-> -2, top |-> -2,
                     mask |-> << <<0, 0, 8>>, <<2, 0, 8>> >>]
      [] OTHER   -> [adv2 |-> 3, bb |-> FALSE, lsb2 |-> 0, top |-> 0,
                     mask |-> << >>]

Threshold10 == 5    \* `if v > 0.5`

----------------------------------------------------------------------------
(* Render::render_text_ttf *)

RECURSIVE Split(_)
\* value.split("\n")
Split(s) ==
    IF \A k \in 1..Len(s) : s[k] # NL THEN <<s>>
    ELSE LET k == CHOOSE k \in 1..Len(s) :
                      s[k] = NL /\ \A m \in 1..(k - 1) : s[m] # NL
         IN <<SubSeq(s, 1, k - 1)>> \o Split(SubSeq(s, k + 1, Len(s)))

RECURSIVE LineWidth(_)
\* glyphs.iter().map(|g| advance_width.ceil() as usize).sum()
LineWidth(line) ==
    IF line = <<>> THEN 0
    ELSE AsUsize(Ceil2(Glyph(Head(line)).adv2)) + LineWidth(Tail(line))

RECURSIVE Caret2(_, _)
\* font.layout: the caret of glyph k is the sum of the advances before it
Caret2(line, k) ==
    IF k = 1 THEN 0 ELSE Caret2(line, k - 1) + Glyph(line[k - 1]).adv2

RECURSIVE MaxLineWidth(_, _, _)
\* the loop's `if line_width > max_line_width { max_line_width = line_width }`
MaxLineWidth(lines, k, m) ==
    IF k > Len(lines) THEN m
    ELSE LET w == LineWidth(lines[k])
         IN MaxLineWidth(lines, k + 1, IF w > m THEN w ELSE m)

\* The pixels glyph k of a line writes, in the order g.draw reports them.
GlyphPixels(line, k, base_x, line_y, v_offset_y) ==
    LET g == Glyph(line[k])
        bb_min_x == Floor2(Caret2(line, k) + g.lsb2)
        bb_min_y == v_offset_y + g.top
        hit == SelectSeq(g.mask, LAMBDA p : p[3] > Threshold10)
    IN IF g.bb
       THEN [n \in 1..Len(hit) |->
                <<hit[n][1] + bb_min_x + base_x, hit[n][2] + bb_min_y + line_y>>]
       ELSE << >>

RECURSIVE LinePixels(_, _, _, _, _)
LinePixels(line, k, base_x, line_y, v_offset_y) ==
    IF k > Len(line) THEN << >>
    ELSE GlyphPixels(line, k, base_x, line_y, v_offset_y)
         \o LinePixels(line, k + 1, base_x, line_y, v_offset_y)

RECURSIVE TextPixels(_, _, _, _, _, _)
\* `for i in 0..lines.len()`: line_y = base_y + i * v_height
TextPixels(lines, k, base_x, base_y, v_height, v_offset_y) ==
    IF k > Len(lines) THEN << >>
    ELSE LinePixels(lines[k], 1, base_x, base_y + (k - 1) * v_height, v_offset_y)
         \o TextPixels(lines, k + 1, base_x, base_y, v_height, v_offset_y)

RECURSIVE DrawAll(_, _, _)
\* draw_pixel(..).unwrap() for each pixel in turn; stops at the first Err
DrawAll(d, pixels, k) ==
    IF k > Len(pixels) THEN [ok |-> TRUE, display |-> d, fail |-> << >>]
    ELSE LET r == DrawPixel(d, pixels[k][1], pixels[k][2], TRUE)
         IN IF r.ok THEN DrawAll(r.display, pixels, k + 1)
            ELSE [ok |-> FALSE, display |-> d, fail |-> pixels[k]]

\* usize a - b: panics in a debug build, wraps in a release build
USub(a, b, bld) ==
    [panic |-> a < b /\ bld = "debug",
     wrapped |-> a < b /\ bld = "release",
     val |-> a - b]

\* base_y = match opts.vcentre { true => cfg.y / 2 - t_height / 2, false => 0 }
VCentre(cfg_y, t_height, vcentre, bld) ==
    IF vcentre THEN USub(cfg_y \div 2, t_height \div 2, bld)
    ELSE [panic |-> FALSE, wrapped |-> FALSE, val |-> 0]

\* v_height * lines.len() - line_gap.floor(); v_height >= line_gap here
THeight(n) ==
    LET v_height == AsUsize(Ceil2(VMetrics.ascent2 - VMetrics.descent2
                                  + VMetrics.line_gap2))
    IN v_height * n - AsUsize(Floor2(VMetrics.line_gap2))

\* render_text_ttf(x, value, opts) on display d: Ok(max_line_width) or a panic
RenderTextTtf(d, c, bld, base_x, value, opts) ==
    LET lines == Split(value)
        v_offset_y == Ceil2(VMetrics.ascent2)
        v_height == AsUsize(Ceil2(VMetrics.ascent2 - VMetrics.descent2
                                  + VMetrics.line_gap2))
        t_height == THeight(Len(lines))
        base_y == VCentre(c.y, t_height, opts.vcentre, bld)
        drawn == DrawAll(d, TextPixels(lines, 1, base_x, base_y.val, v_height,
                                       v_offset_y), 1)
    IN IF base_y.panic
       THEN [res |-> "panic", error |-> "overflow", display |-> d, adv |-> 0,
             base_y |-> base_y, t_height |-> t_height, fail |-> << >>]
       ELSE IF ~drawn.ok
       THEN [res |-> "panic", error |-> "unwrap", display |-> drawn.display,
             adv |-> 0, base_y |-> base_y, t_height |-> t_height,
             fail |-> drawn.fail]
       ELSE [res |-> "ok", error |-> "none", display |-> drawn.display,
             adv |-> MaxLineWidth(lines, 1, 0), base_y |-> base_y,
             t_height |-> t_height, fail |-> << >>]

----------------------------------------------------------------------------
(* Render::pad *)

\* draw_pixel(Pixel(Point::new((x + columns) as i32, 0), Off))?; Ok(columns)
Pad(d, base_x, columns) ==
    LET r == DrawPixel(d, base_x + columns, 0, FALSE)
    IN IF r.ok
       THEN [res |-> "ok", error |-> "none", display |-> r.display,
             adv |-> columns]
       ELSE [res |-> "err", error |-> "OutOfBounds", display |-> d, adv |-> 0]

----------------------------------------------------------------------------
(* Render::new and Render::render *)

Cfgs == [min_x : MinXs, max_x : MaxXs, y : CfgYs]

TextOp(value, vcentre) ==
    [kind |-> "Text", value |-> value, vcentre |-> vcentre, columns |-> 0]
PadOp(n) ==
    [kind |-> "Pad", value |-> << >>, vcentre |-> FALSE, columns |-> n]
BarcodeOp ==
    [kind |-> "Barcode", value |-> << >>, vcentre |-> FALSE, columns |-> 0]

Ops ==
    {TextOp(v, c) : v \in Values, c \in BOOLEAN}
        \cup {PadOp(n) : n \in 0..MaxPad} \cup {BarcodeOp}

OpSeqs == UNION {[1..n -> Ops] : n \in 0..MaxOps}

NoLast ==
    [op |-> "none", c0 |-> 0, w0 |-> 0, vcentre |-> FALSE, t_height |-> 0,
     base_y |-> [panic |-> FALSE, wrapped |-> FALSE, val |-> 0],
     fail |-> << >>]

NoImage == [valid |-> FALSE, bytes |-> << >>]

\* Render::new(cfg): the display has cfg.y rows and cfg.min_x columns
Init ==
    /\ cfg \in Cfgs
    /\ build \in Builds
    /\ display = DisplayNew(cfg.y, cfg.min_x)
    /\ ops = << >>
    /\ i = 0
    /\ x = 0
    /\ status = "new"
    /\ error = "none"
    /\ applied = << >>
    /\ last = NoLast
    /\ sets = 0
    /\ img = NoImage

\* render(&mut self, ops): `let mut x = 0;` and the loop begins
RenderCall ==
    /\ status = "new"
    /\ \E s \in OpSeqs : ops' = s
    /\ status' = "running"
    /\ x' = 0
    /\ i' = 0
    /\ UNCHANGED <<cfg, build, display, error, applied, last, sets, img>>

RenderAssign(c, adv) == adv

\* `x += match operation { .. }`
RenderAccumulate(c, adv) == c + adv

\* Op::Text{ value, opts } => self.render_text_ttf(x, value, opts)?
StepText ==
    /\ status = "running"
    /\ i < Len(ops)
    /\ ops[i + 1].kind = "Text"
    /\ LET op == ops[i + 1]
           r == RenderTextTtf(display, cfg, build, x, op.value, op)
       IN /\ display' = r.display
          /\ last' = [op |-> "Text", c0 |-> x, w0 |-> Len(display.data),
                      vcentre |-> op.vcentre, t_height |-> r.t_height,
                      base_y |-> r.base_y, fail |-> r.fail]
          /\ IF r.res = "ok"
             THEN /\ x' = RenderAccumulate(x, r.adv)
                  /\ i' = i + 1
                  /\ applied' = Append(applied, op)
                  /\ UNCHANGED <<status, error>>
             ELSE /\ status' = r.res
                  /\ error' = r.error
                  /\ UNCHANGED <<x, i, applied>>
    /\ UNCHANGED <<cfg, build, ops, sets, img>>

\* Op::Pad(c) => self.pad(x, *c)?
StepPad ==
    /\ status = "running"
    /\ i < Len(ops)
    /\ ops[i + 1].kind = "Pad"
    /\ LET op == ops[i + 1]
           r == Pad(display, x, op.columns)
       IN /\ display' = r.display
          /\ last' = [NoLast EXCEPT !.op = "Pad", !.c0 = x,
                                    !.w0 = Len(display.data)]
          /\ IF r.res = "ok"
             THEN /\ x' = RenderAccumulate(x, r.adv)
                  /\ i' = i + 1
                  /\ applied' = Append(applied, op)
                  /\ UNCHANGED <<status, error>>
             ELSE /\ status' = r.res
                  /\ error' = r.error
                  /\ UNCHANGED <<x, i, applied>>
    /\ UNCHANGED <<cfg, build, ops, sets, img>>

\* _ => unimplemented!()
StepOther ==
    /\ status = "running"
    /\ i < Len(ops)
    /\ ops[i + 1].kind \notin {"Text", "Pad"}
    /\ status' = "panic"
    /\ error' = "unimplemented"
    /\ last' = [NoLast EXCEPT !.op = "Other", !.c0 = x,
                              !.w0 = Len(display.data)]
    /\ UNCHANGED <<cfg, build, display, ops, i, x, applied, sets, img>>

\* the loop is exhausted: Ok(self)
RenderReturn ==
    /\ status = "running"
    /\ i = Len(ops)
    /\ status' = "ok"
    /\ UNCHANGED <<cfg, build, display, ops, i, x, error, applied, last, sets, img>>

Next == RenderCall \/ StepText \/ StepPad \/ StepOther \/ RenderReturn

Spec == Init /\ [][Next]_vars

----------------------------------------------------------------------------
(* A Display driven directly, as in test::test_display *)

NoSet == [op |-> "none", x |-> 0, y |-> 0, v |-> FALSE, w0 |-> 0, ok |-> TRUE]

\* Display::new(height, initial_width)
InitDisplay ==
    /\ \E h \in Heights, w \in InitWs :
          /\ display = DisplayNew(h, w)
          /\ cfg = [min_x |-> w, max_x |-> w, y |-> h]
    /\ build = "debug"
    /\ ops = << >>
    /\ i = 0
    /\ x = 0
    /\ status = "new"
    /\ error = "none"
    /\ applied = << >>
    /\ last = NoSet
    /\ sets = 0
    /\ img = NoImage

\* d.set(x, y, v)
SetPixel ==
    /\ sets < MaxSets
    /\ \E px \in SetXs, v \in BOOLEAN,
          py \in {r \in SetYs : r < display.height} \cup {display.height} :
          LET r == DisplaySet(display, px, py, v)
          IN /\ display' = r.display
             /\ last' = [op |-> "set", x |-> px, y |-> py, v |-> v,
                         w0 |-> Len(display.data), ok |-> r.ok]
    /\ sets' = sets + 1
    /\ img' = NoImage
    /\ UNCHANGED <<cfg, build, ops, i, x, status, error, applied>>

\* d.image()
ExportImage ==
    /\ ~img.valid
    /\ img' = [valid |-> TRUE, bytes |-> DisplayImage(display)]
    /\ UNCHANGED <<cfg, build, display, ops, i, x, status, error, applied,
                   last, sets>>

NextDisplay == SetPixel \/ ExportImage

SpecDisplay == InitDisplay /\ [][NextDisplay]_vars

----------------------------------------------------------------------------
(* Properties *)

\* pixel (px, py) of display d is on
On(d, px, py) == DisplayGet(d, px, py).v

Width(d) == Len(d.data)

CeilDiv(a, b) == IF a % b = 0 THEN a \div b ELSE a \div b + 1

SetMax(S) == CHOOSE m \in S : \A n \in S : n <= m

RECURSIVE SeqSum(_)
SeqSum(q) == IF q = << >> THEN 0 ELSE Head(q) + SeqSum(Tail(q))

\* the advance an operation is to return: n for Pad(n), and for Text the
\* largest line width, a line's width being its glyphs' advances rounded up
AdvanceOf(op) ==
    IF op.kind = "Pad" THEN op.columns
    ELSE LET ls == Split(op.value)
             W(l) == SeqSum([k \in 1..Len(l) |-> CeilDiv(Glyph(l[k]).adv2, 2)])
         IN SetMax({W(ls[k]) : k \in 1..Len(ls)})

TextStep == status = "running" /\ i < Len(ops) /\ ops[i + 1].kind = "Text"
PadStep == status = "running" /\ i < Len(ops) /\ ops[i + 1].kind = "Pad"
\* C1: an operation other than Text or Pad makes render return an
\* UnsupportedOperation error to its caller (no abort).
C1_UnsupportedIsError ==
    last.op = "Other" => (status = "err" /\ error = "UnsupportedOperation")

C2_Inv ==
    /\ status = "new" => x = 0
    /\ status # "new" =>
          /\ i = Len(applied)
          /\ i <= Len(ops)
          /\ applied = SubSeq(ops, 1, i)
          /\ x = SeqSum([k \in 1..i |-> AdvanceOf(ops[k])])

C2_Step ==
    /\ x' >= x
    /\ status = "new" => x' = 0 /\ i' = 0
    /\ status # "new" => i' \in {i, i + 1}
    /\ (status # "new" /\ i' = i + 1) => applied' = Append(applied, ops[i + 1])

\* C2: the cursor starts at 0 and never decreases, operations are applied
\* one at a time in input order, and before operation i the cursor is the
\* sum of the advances of the operations before it.
C2_CursorInOrder == C2_Inv /\ [][C2_Step /\ C2_Inv']_vars

C2_Witness ==
    /\ status = "ok"
    /\ i = 2
    /\ ops[1].kind = "Text"
    /\ ops[2].kind = "Pad"
    /\ AdvanceOf(ops[1]) > 0
    /\ ops[2].columns > 0
    /\ x = AdvanceOf(ops[1]) + ops[2].columns

\* C3: the canvas is never wider than max_x.
C3_WidthWithinMaxX == Width(display) <= cfg.max_x

\* C4: the export has height * ceil(width / 8) bytes; bit (x mod 8) of byte
\* (y * ceil(width / 8) + x div 8) is 1 exactly when bit y of column x is 1;
\* every padding bit is 0.
C4_RowMajorExport ==
    img.valid =>
        LET W == Width(display)
            H == display.height
            rb == CeilDiv(W, 8)
        IN /\ Len(img.bytes) = H * rb
           /\ \A py \in 0..(H - 1) :
                 /\ \A px \in 0..(W - 1) :
                       Bit(img.bytes[py * rb + px \div 8 + 1], px % 8) = 1
                           <=> Bit(display.data[px + 1][py \div 8 + 1], py % 8) = 1
                 /\ \A px \in W..(8 * rb - 1) :
                       Bit(img.bytes[py * rb + px \div 8 + 1], px % 8) = 0

C4_Witness ==
    /\ img.valid
    /\ display.height = 9
    /\ Width(display) = 9
    /\ On(display, 8, 8)
    /\ On(display, 1, 0)

\* C5: set(k, y, v) with k >= width and y < height leaves exactly k + 1
\* columns, the appended columns other than k all zero and the old columns
\* unchanged; with k < width the width is unchanged.
C5_SetGrowsExactly ==
    [][(last'.op = "set" /\ sets' = sets + 1 /\ last'.ok) =>
          LET k == last'.x
              W == Width(display)
          IN IF k >= W
             THEN /\ Width(display') = k + 1
                  /\ \A c \in (W + 1)..k : display'.data[c] = ZeroColumn(display.height)
                  /\ \A c \in 1..W : display'.data[c] = display.data[c]
             ELSE Width(display') = W]_vars

C5_Witness ==
    /\ last.op = "set"
    /\ last.ok
    /\ last.v
    /\ last.w0 >= 1
    /\ last.x >= last.w0 + 2
    /\ Width(display) = last.x + 1
    /\ On(display, last.x, last.y)

\* C6: after every operation applied successfully the canvas is at least as
\* wide as the cursor.
C6_WidthCoversCursor ==
    (status \in {"running", "ok"} /\ i > 0) => Width(display) >= x

\* C7: a Text operation at cursor c turns on no pixel in a column left of c
\* (the columns of the operations before it).
C7_TextDrawsRightOfCursor ==
    [][TextStep =>
          \A px \in 0..(x - 1), py \in 0..(display.height - 1) :
              On(display', px, py) => On(display, px, py)]_vars

\* C8: a Text operation that writes a pixel at a row y >= height makes
\* render return an OutOfBounds error.
C8_OutOfBoundsReturned ==
    (last.op = "Text" /\ last.fail # << >> /\ last.fail[2] >= cfg.y)
        => (status = "err" /\ error = "OutOfBounds")

\* C9: with vertical_centre the start offset is height / 2 - block / 2 for
\* every line count, computed without underflow or abort; without it, 0.
C9_VCentreOffset ==
    last.op = "Text" =>
        /\ ~last.base_y.panic
        /\ ~last.base_y.wrapped
        /\ last.base_y.val =
              IF last.vcentre THEN cfg.y \div 2 - last.t_height \div 2 ELSE 0

\* C10: Pad changes no pixel: every pixel on before it is on after it, and
\* every pixel of a newly grown column is off.
C10_PadChangesNoPixel ==
    [][PadStep =>
          /\ \A px \in 0..(Width(display) - 1), py \in 0..(display.height - 1) :
                On(display, px, py) => On(display', px, py)
          /\ \A px \in Width(display)..(Width(display') - 1),
                py \in 0..(display.height - 1) : ~On(display', px, py)]_vars

====
